---- MODULE Spec2Model ----
(***************************************************************************)
(* Isolation forest (IsolationForest.hpp): INode, ITree and IForest.       *)
(*                                                                         *)
(* Node indices, buffer indices and depths are the 0-based integers of the *)
(* C++ code; TLA+ sequences are 1-based, so At(s, i) reads s[i + 1].       *)
(* Values of value_type are modelled by small integers: the code only      *)
(* copies them and compares them with <.                                   *)
(***************************************************************************)
EXTENDS Integers, Sequences, FiniteSets, TLC

\* ---------------------------------------------------------------- bounds
MaxLen == 3        \* longest training sequence a caller passes
MaxVal == 2        \* training values are 1..MaxVal
MaxDepth == 2      \* max_depth given to the constructor is 0..MaxDepth
NumTrees == 2      \* num_trees given to the IForest constructor
ForestMaxDepth == 1 \* max_depth of a forest is 0..ForestMaxDepth, unless
DeepMaxLen == 1    \* its training sequence is no longer than DeepMaxLen
MaxNodes == 8      \* build is called again only on a tree of fewer nodes

Values == 1..MaxVal
Inputs == UNION {[1..k -> Values] : k \in 0..MaxLen}
\* query values: 0 is below every training value; a value above all of them
\* walks a tree as MaxVal does (neither is < any split_value)
QueryValues == 0..MaxVal
\* size arguments of score: one on each branch of calc_depth
SizeArgs == {1, MaxLen}

\* std::size_t arithmetic wraps modulo 2^64. TLC's integers are 32 bits wide,
\* so the model wraps modulo 2^30: 0 - 1 is the largest value and the largest
\* value + 1 is 0, as in the code.
SizeModulus == 2^30
SizeWrap(n) == n % SizeModulus

VARIABLES
    input,      \* the caller's training sequence, the range passed to build
    max_depth,  \* ITree::max_depth (the same for every tree of a forest)
    asserts,    \* TRUE: assert() is compiled in; FALSE: built with NDEBUG
    trees,      \* IForest::trees; trees[t] is ITree::tree of tree t
    data,       \* the local vector `data` of IForest::build
    tree_i,     \* position of IForest::build's loop over trees (0: no loop)
    shuffle_i,  \* the loop variable i of IForest::shuffle
    tdata,      \* the local vector `data` of ITree::build
    stack,      \* call stack of ITree::build_recursively
    base,       \* tree.size() when the running/last ITree::build was called
    pc,         \* where the program is
    fault,      \* how the program crashed, "none" while it has not
    path_ret,   \* what the caller's last ITree::path_length call returned
    score_ret   \* what the caller's last IForest::score call returned

vars == <<input, max_depth, asserts, trees, data, tree_i, shuffle_i, tdata,
          stack, base, pc, fault, path_ret, score_ret>>

\* ------------------------------------------------------------- helpers
At(s, i) == s[i + 1]
Top(stk) == stk[Len(stk)]
Pop(stk) == SubSeq(stk, 1, Len(stk) - 1)

\* the values rand() % n can take, n > 0 (rand() is in 0..RAND_MAX)
RandMod(n) == 0..(n - 1)

\* INode as it would be without its default member initializers: node_type{}
\* value-initializes left and right to 0
LeafNodeZeroed == [split_value |-> 0, left |-> 0, right |-> 0]

\* ---------------------------------------------------------------- INode
LeafNode == [split_value |-> 0, left |-> -1, right |-> -1]

\* ---------------------------------------------------------------- ITree
root_id(tree) == Len(tree) - 1

\* an iter_swap that assigns one way only
IterSwapOverwrite(s, i, j) == [s EXCEPT ![i + 1] = s[j + 1]]

\* std::iter_swap on the elements at 0-based positions i and j
IterSwap(s, i, j) == [s EXCEPT ![i + 1] = s[j + 1], ![j + 1] = s[i + 1]]

\* The lambda of build_recursively: it captures `anchor` by reference and
\* `anchor` is itself a reference to data[anchor_index], so each call reads
\* the element that is at anchor_index now.
Pred(d, anchor_index, v) == v < At(d, anchor_index)

RECURSIVE ScanUp(_, _, _, _)
ScanUp(d, first, last, anchor_index) ==
    IF first = last THEN first
    ELSE IF Pred(d, anchor_index, At(d, first))
         THEN ScanUp(d, first + 1, last, anchor_index)
         ELSE first

RECURSIVE ScanDown(_, _, _, _)
ScanDown(d, first, last, anchor_index) ==
    IF first = last THEN last
    ELSE IF ~Pred(d, anchor_index, At(d, last))
         THEN ScanDown(d, first, last - 1, anchor_index)
         ELSE last

\* std::partition(data.begin() + first, data.begin() + last, pred) for the
\* random-access iterators of std::span: scan up to the first element that
\* fails pred, scan down to the last element that passes it, swap, repeat.
RECURSIVE partition(_, _, _, _)
partition(d, first, last, anchor_index) ==
    LET f == ScanUp(d, first, last, anchor_index) IN
    IF f = last THEN [data |-> d, mid |-> f]
    ELSE LET l == ScanDown(d, f, last - 1, anchor_index) IN
         IF f = l THEN [data |-> d, mid |-> f]
         ELSE partition(IterSwap(d, f, l), f + 1, l, anchor_index)

\* the terminal condition of build_recursively
IsTerminal(left, right, depth) ==
    left >= right \/ depth >= max_depth \/ right = 0

\* a fresh activation of build_recursively(data, left, right, depth)
Frame(left, right, depth) ==
    [left |-> left, right |-> right, depth |-> depth, stage |-> "entry",
     anchor |-> 0, split_value |-> 0, mid |-> 0, lchild |-> -1, rchild |-> -1]

\* the node with the index of the right subtree stored in both fields
InternalNodeLeftLost(f) ==
    [split_value |-> f.split_value, left |-> f.rchild, right |-> f.rchild]

\* the node an activation appends once both recursive calls have returned
InternalNode(f) ==
    [split_value |-> f.split_value, left |-> f.lchild, right |-> f.rchild]

\* An activation returns `value` to its caller; stk is the stack without the
\* returning activation. A caller waiting for its left subtree stores the
\* index and calls build_recursively(data, mid, right, depth + 1); a caller
\* waiting for its right subtree stores the index and is ready to append.
Return(stk, value) ==
    IF stk = <<>> THEN stk
    ELSE LET f == Top(stk) IN
         IF f.stage = "left"
         THEN Append([stk EXCEPT ![Len(stk)] =
                          [f EXCEPT !.lchild = value, !.stage = "right"]],
                     Frame(f.mid, f.right, f.depth + 1))
         ELSE [stk EXCEPT ![Len(stk)] =
                   [f EXCEPT !.rchild = value, !.stage = "push"]]

\* the tree the running ITree::build works on
Cur == IF tree_i = 0 THEN 1 ELSE tree_i

RECURSIVE path_length(_, _, _, _)
path_length(tree, value, node_index, node_depth) ==
    LET node == At(tree, node_index)
        here == node_index > 0      \* assert(node_index > 0)
    IN  IF (node.left >= 0 \/ node.right >= 0)
           /\ value < node.split_value /\ node.left >= 0
        THEN LET r == path_length(tree, value, node.left, node_depth + 1)
             IN  [assert_ok |-> here /\ r.assert_ok, ret |-> r.ret]
        ELSE IF (node.left >= 0 \/ node.right >= 0) /\ node.right >= 0
        THEN LET r == path_length(tree, value, node.right, node_depth + 1)
             IN  [assert_ok |-> here /\ r.assert_ok, ret |-> r.ret]
        ELSE [assert_ok |-> here, ret |-> node_depth - 1]

\* --------------------------------------------------------------- IForest
\* calc_depth(size): 0 for size <= 1; otherwise 2(ln(size-1) + 0.5772156649)
\* - 2(size-1)/size, which is strictly increasing in size and is kept here
\* as the size it is computed from.
calc_depth(size) == IF size <= 1 THEN 0 ELSE size

RECURSIVE SumPaths(_, _, _)
SumPaths(ts, value, t) ==
    IF t = 0 THEN 0
    ELSE SumPaths(ts, value, t - 1)
         + path_length(ts[t], value, root_id(ts[t]), 0).ret

\* the value score(value, size) returns: 2 ^ ((sum / trees.size()) /
\* calc_depth(size)), kept as the three numbers the pow is computed from
score(ts, value, size) ==
    [sum |-> SumPaths(ts, value, NumTrees), count |-> NumTrees,
     calc_depth |-> calc_depth(size)]

NoPath == [called |-> FALSE, value |-> 0, ret |-> 0]
NoScore == [called |-> FALSE, value |-> 0, size |-> 0,
            result |-> [sum |-> 0, count |-> 0, calc_depth |-> 0]]

\* ------------------------------------------------------------------ Init
InitCommon ==
    /\ input \in Inputs
    /\ max_depth \in 0..MaxDepth
    /\ asserts \in BOOLEAN
    /\ trees = [t \in 1..NumTrees |-> <<>>]
    /\ data = <<>>
    /\ tree_i = 0
    /\ shuffle_i = 0
    /\ tdata = <<>>
    /\ stack = <<>>
    /\ base = 0
    /\ fault = "none"
    /\ path_ret = NoPath
    /\ score_ret = NoScore

NonDecreasing(s) == \A k \in 1..(Len(s) - 1) : s[k] <= s[k + 1]

\* A constructed IForest. IForest::build shuffles its copy before every tree,
\* and the shuffle reaches every order of the values, so the caller's
\* sequences are taken in non-decreasing order: one per multiset of values.
\* Forests of deeper trees are built from the short sequences only.
Init ==
    /\ InitCommon
    /\ NonDecreasing(input)
    /\ max_depth <= ForestMaxDepth \/ Len(input) <= DeepMaxLen
    /\ pc = "idle"

\* a constructed ITree used on its own
InitTree == InitCommon /\ pc = "tree_idle"

\* --------------------------------------------------------------- actions
\* ITree::build(first, last) on tree t: copy the range, call
\* build_recursively(data, 0, distance(first, last), 0)
build(t, seq) ==
    /\ tdata' = seq
    /\ base' = Len(trees[t])
    /\ stack' = <<Frame(0, Len(seq), 0)>>
    /\ pc' = "tree"

\* an ITree::build that clears the node collection before it builds
ITreeBuildReset ==
    /\ pc = "tree_idle"
    /\ Len(trees[1]) < MaxNodes
    /\ trees' = [trees EXCEPT ![1] = <<>>]
    /\ tdata' = input
    /\ base' = 0
    /\ stack' = <<Frame(0, Len(input), 0)>>
    /\ pc' = "tree"
    /\ path_ret' = NoPath
    /\ UNCHANGED <<input, max_depth, asserts, data, tree_i, shuffle_i,
                   fault, score_ret>>

\* a caller calls ITree::build(input.begin(), input.end()) on a tree of its own
ITreeBuild ==
    /\ pc = "tree_idle"
    /\ Len(trees[1]) < MaxNodes
    /\ build(1, input)
    /\ path_ret' = NoPath
    /\ UNCHANGED <<input, max_depth, asserts, trees, data, tree_i, shuffle_i,
                   fault, score_ret>>

\* build_recursively, terminal branch: append a default node, return its index
BuildLeaf ==
    /\ pc = "tree"
    /\ stack # <<>>
    /\ LET f == Top(stack) IN
       /\ f.stage = "entry"
       /\ IsTerminal(f.left, f.right, f.depth)
       /\ LET tree == Append(trees[Cur], LeafNode) IN
          /\ trees' = [trees EXCEPT ![Cur] = tree]
          /\ stack' = Return(Pop(stack), root_id(tree))
    /\ UNCHANGED <<input, max_depth, asserts, data, tree_i, shuffle_i, tdata,
                   base, pc, fault, path_ret, score_ret>>

\* build_recursively, splitting branch up to the first recursive call: pick
\* the anchor, partition, read split_value (the first designated initializer),
\* call build_recursively(data, left, mid, depth + 1)
BuildSplit ==
    /\ pc = "tree"
    /\ stack # <<>>
    /\ LET f == Top(stack) IN
       /\ f.stage = "entry"
       /\ ~IsTerminal(f.left, f.right, f.depth)
       /\ \E r \in RandMod(f.right - f.left) :
            LET anchor_index == f.left + r
                p == partition(tdata, f.left, f.right, anchor_index)
                g == [f EXCEPT !.stage = "left",
                               !.anchor = At(tdata, anchor_index),
                               !.split_value = At(p.data, anchor_index),
                               !.mid = p.mid]
            IN  /\ tdata' = p.data
                /\ stack' = Append([stack EXCEPT ![Len(stack)] = g],
                                   Frame(f.left, p.mid, f.depth + 1))
    /\ UNCHANGED <<input, max_depth, asserts, trees, data, tree_i, shuffle_i,
                   base, pc, fault, path_ret, score_ret>>

\* build_recursively, splitting branch after both recursive calls: append the
\* node, return its index
BuildNode ==
    /\ pc = "tree"
    /\ stack # <<>>
    /\ LET f == Top(stack) IN
       /\ f.stage = "push"
       /\ LET tree == Append(trees[Cur], InternalNode(f)) IN
          /\ trees' = [trees EXCEPT ![Cur] = tree]
          /\ stack' = Return(Pop(stack), root_id(tree))
    /\ UNCHANGED <<input, max_depth, asserts, data, tree_i, shuffle_i, tdata,
                   base, pc, fault, path_ret, score_ret>>

\* ITree::build returns to a caller that called it directly; its local
\* vector is destroyed
ITreeReturn ==
    /\ pc = "tree"
    /\ stack = <<>>
    /\ tree_i = 0
    /\ pc' = "tree_idle"
    /\ tdata' = <<>>
    /\ UNCHANGED <<input, max_depth, asserts, trees, data, tree_i, shuffle_i,
                   stack, base, fault, path_ret, score_ret>>

\* a caller calls path_length(value, root_id(), 0) on its built tree
PathLength(value) ==
    /\ pc = "tree_idle"
    /\ trees[1] # <<>>
    /\ LET r == path_length(trees[1], value, root_id(trees[1]), 0) IN
       IF asserts /\ ~r.assert_ok
       THEN pc' = "aborted" /\ path_ret' = path_ret
       ELSE pc' = pc
            /\ path_ret' = [called |-> TRUE, value |-> value, ret |-> r.ret]
    /\ UNCHANGED <<input, max_depth, asserts, trees, data, tree_i, shuffle_i,
                   tdata, stack, base, fault, score_ret>>

\* a caller calls IForest::build(input.begin(), input.end()) on a forest it
\* has constructed (a forest is populated once, a tree on its own is built
\* again by ITreeBuild): copy the range, enter the loop over the trees and the
\* first call of shuffle
ForestBuild ==
    /\ pc = "idle"
    /\ \A t \in 1..NumTrees : trees[t] = <<>>
    /\ data' = input
    /\ tree_i' = 1
    /\ shuffle_i' = SizeWrap(Len(input) - 1)
    /\ pc' = "shuffle"
    /\ score_ret' = NoScore
    /\ UNCHANGED <<input, max_depth, asserts, trees, tdata, stack, base,
                   fault, path_ret>>

\* One iteration of the loop of IForest::shuffle. With an empty vector i
\* starts at the largest std::size_t, i + 1 wraps to 0 and rand() % 0 is
\* undefined: the division traps, or it yields some index and iter_swap
\* reads and writes outside the vector.
ShuffleStep ==
    /\ pc = "shuffle"
    /\ shuffle_i > 0
    /\ LET m == SizeWrap(shuffle_i + 1) IN
       IF m = 0 \/ shuffle_i >= Len(data)
       THEN /\ pc' = "crashed"
            /\ fault' \in (IF m = 0 THEN {"div_by_zero", "out_of_range"}
                           ELSE {"out_of_range"})
            /\ UNCHANGED <<data, shuffle_i>>
       ELSE /\ \E j \in RandMod(m) : data' = IterSwap(data, shuffle_i, j)
            /\ shuffle_i' = shuffle_i - 1
            /\ UNCHANGED <<pc, fault>>
    /\ UNCHANGED <<input, max_depth, asserts, trees, tree_i, tdata, stack,
                   base, path_ret, score_ret>>

\* shuffle has returned; the loop body calls tree.build(data.begin(), data.end())
TreeBuild ==
    /\ pc = "shuffle"
    /\ shuffle_i = 0
    /\ build(tree_i, data)
    /\ UNCHANGED <<input, max_depth, asserts, trees, data, tree_i, shuffle_i,
                   fault, path_ret, score_ret>>

\* tree.build has returned to the loop of IForest::build: the next tree is
\* shuffled for, or IForest::build returns and its local vector is destroyed
TreeDone ==
    /\ pc = "tree"
    /\ stack = <<>>
    /\ tree_i > 0
    /\ tdata' = <<>>
    /\ IF tree_i < NumTrees
       THEN /\ tree_i' = tree_i + 1
            /\ shuffle_i' = SizeWrap(Len(data) - 1)
            /\ pc' = "shuffle"
            /\ data' = data
       ELSE /\ tree_i' = 0
            /\ shuffle_i' = 0
            /\ pc' = "idle"
            /\ data' = <<>>
    /\ UNCHANGED <<input, max_depth, asserts, trees, stack, base, fault,
                   path_ret, score_ret>>

\* a score that appends a node to the first tree while it walks it
ScoreTouchesTree(value, size) ==
    /\ pc = "idle"
    /\ \A t \in 1..NumTrees : trees[t] # <<>>
    /\ Len(trees[1]) < MaxNodes
    /\ trees' = [trees EXCEPT ![1] = Append(@, LeafNode)]
    /\ score_ret' = [called |-> TRUE, value |-> value, size |-> size,
                     result |-> score(trees, value, size)]
    /\ UNCHANGED <<input, max_depth, asserts, data, tree_i, shuffle_i,
                   tdata, stack, base, pc, fault, path_ret>>

\* a caller calls IForest::score(value, size) on a built forest
Score(value, size) ==
    /\ pc = "idle"
    /\ \A t \in 1..NumTrees : trees[t] # <<>>
    /\ LET tripped == \E t \in 1..NumTrees :
               ~path_length(trees[t], value, root_id(trees[t]), 0).assert_ok
       IN  IF asserts /\ tripped
           THEN pc' = "aborted" /\ score_ret' = score_ret
           ELSE pc' = pc
                /\ score_ret' = [called |-> TRUE, value |-> value,
                                 size |-> size,
                                 result |-> score(trees, value, size)]
    /\ UNCHANGED <<input, max_depth, asserts, trees, data, tree_i, shuffle_i,
                   tdata, stack, base, fault, path_ret>>

Next ==
    \/ ForestBuild
    \/ ShuffleStep
    \/ TreeBuild
    \/ BuildLeaf
    \/ BuildSplit
    \/ BuildNode
    \/ TreeDone
    \/ \E value \in QueryValues, size \in SizeArgs : Score(value, size)

Spec == Init /\ [][Next]_vars

NextTree ==
    \/ ITreeBuild
    \/ BuildLeaf
    \/ BuildSplit
    \/ BuildNode
    \/ ITreeReturn
    \/ \E value \in QueryValues : PathLength(value)

SpecTree == InitTree /\ [][NextTree]_vars

\* ------------------------------------------------- vocabulary of the claims
\* the nodes of `tree` reachable from the nodes of S by left/right references
Children(tree, k) ==
    {c \in {At(tree, k).left, At(tree, k).right} : c >= 0 /\ c < Len(tree)}

RECURSIVE Closure(_, _)
Closure(tree, S) ==
    LET N == S \cup UNION {Children(tree, k) : k \in S}
    IN  IF N = S THEN S ELSE Closure(tree, N)

Count(s, v) == Cardinality({k \in 1..Len(s) : s[k] = v})
SameMultiset(a, b) ==
    Len(a) = Len(b) /\ \A v \in Values : Count(a, v) = Count(b, v)

\* ITree::build has returned on a tree used on its own
TreeBuilt == pc = "tree_idle" /\ trees[1] # <<>>

\* IForest::build has returned
ForestBuilt == pc = "idle" /\ \A t \in 1..NumTrees : trees[t] # <<>>

\* build_recursively has just partitioned and made its first recursive call
JustSplit ==
    /\ pc = "tree"
    /\ Len(stack) >= 2
    /\ Top(stack).stage = "entry"
    /\ stack[Len(stack) - 1].stage = "left"

\* ------------------------------------------------------------------- C1
\* C1: after ITree::build with max_depth >= 1 on a sequence of size >= 2,
\* root_id() is node_count - 1 and that node is the root of the tree just
\* built: the nodes the build appended (indices base .. node_count - 1) are
\* exactly the nodes reachable from it, in post-order (the right child of an
\* internal node is the node before it, its left child the node before the
\* right subtree).
C1_RootIsLast ==
    (TreeBuilt /\ max_depth >= 1 /\ Len(input) >= 2) =>
        LET tree == trees[1]
            root == root_id(tree)
        IN  /\ root = Len(tree) - 1
            /\ Closure(tree, {root}) = base..(Len(tree) - 1)
            /\ \A k \in base..(Len(tree) - 1) :
                 LET n == At(tree, k) IN
                 (n.left >= 0 \/ n.right >= 0) =>
                     /\ n.right = k - 1
                     /\ n.left = n.right - Cardinality(Closure(tree, {n.right}))

C1_Witness ==
    /\ TreeBuilt
    /\ max_depth >= 2
    /\ Len(input) >= 2
    /\ Len(trees[1]) - base >= 5
    /\ At(trees[1], At(trees[1], root_id(trees[1])).left).left >= 0

\* ------------------------------------------------------------------- C2
\* C2: in every state during and after a build, every node is a leaf
\* (left < 0 and right < 0) or has a child, and every child reference of the
\* node at index k is in 0 .. k - 1.
C2_ChildrenAreEarlier ==
    \A t \in 1..NumTrees : \A k \in 0..(Len(trees[t]) - 1) :
        LET n == At(trees[t], k) IN
        /\ (n.left < 0 /\ n.right < 0) \/ (n.left >= 0 \/ n.right >= 0)
        /\ n.left >= 0 => n.left < k
        /\ n.right >= 0 => n.right < k

C2_Witness ==
    /\ pc = "tree"
    /\ stack # <<>>
    /\ \E k \in 0..(Len(trees[1]) - 1) :
          At(trees[1], k).left >= 0 /\ At(trees[1], k).right >= 0

\* ------------------------------------------------------------------- C3
\* C3: for a tree built with max_depth >= 1 and every query value,
\* path_length(value, root_id(), 0) returns (the program is not aborted) a
\* result r with 0 <= r <= max_depth.
C3_PathLengthInRange ==
    max_depth >= 1 =>
        /\ pc # "aborted"
        /\ path_ret.called => (0 <= path_ret.ret /\ path_ret.ret <= max_depth)

\* ------------------------------------------------------------------- C7
\* C7: after a partition step over [left, right) whose anchor value was a
\* when it was picked, every element of [left, mid) is < a and every element
\* of [mid, right) is >= a.
C7_PartitionedAroundAnchor ==
    JustSplit =>
        LET f == stack[Len(stack) - 1] IN
        /\ \A k \in f.left..(f.mid - 1) : At(tdata, k) < f.anchor
        /\ \A k \in f.mid..(f.right - 1) : At(tdata, k) >= f.anchor

\* ------------------------------------------------------------------- C8
\* C8: every internal node appended carries as split_value the value that was
\* at the anchor index when the anchor was picked, and as left and right the
\* indices returned for [left, mid) and [mid, right).
C8_SplitValueIsAnchor ==
    [][(pc = "tree" /\ stack # <<>> /\ Top(stack).stage = "push"
        /\ Len(trees'[Cur]) = Len(trees[Cur]) + 1) =>
           LET n == At(trees'[Cur], Len(trees[Cur]))
               f == Top(stack)
           IN  /\ n.split_value = f.anchor
               /\ n.left = f.lchild
               /\ n.right = f.rchild]_vars

\* ------------------------------------------------------------------- C9
\* C9: build on a tree that is already built appends: no step changes or
\* removes a node already stored, and when the build returns the nodes
\* reachable from root_id() are exactly the newly appended ones (indices
\* base .. node_count - 1), as many as the node count grew by.
C9_BuildAppends ==
    [][/\ \A t \in 1..NumTrees :
            /\ Len(trees'[t]) >= Len(trees[t])
            /\ SubSeq(trees'[t], 1, Len(trees[t])) = trees[t]
       /\ (pc = "tree" /\ pc' = "tree_idle") =>
            LET tree == trees'[1]
                R == Closure(tree, {root_id(tree)})
            IN  /\ base' = base
                /\ Len(tree) > base
                /\ root_id(tree) \in R
                /\ R \subseteq base..(Len(tree) - 1)
                /\ Cardinality(R) = Len(tree) - base]_vars

C9_Witness ==
    /\ TreeBuilt
    /\ base >= 3
    /\ Len(trees[1]) - base >= 3

\* ------------------------------------------------------------------- C4
\* C4: IForest::build on an empty sequence does not crash and accesses
\* nothing out of range, leaves every tree a single leaf, and a score call
\* after it completes.
C4_EmptyBuildIsSafe ==
    input = <<>> =>
        /\ pc \notin {"crashed", "aborted"}
        /\ fault = "none"
        /\ ForestBuilt => \A t \in 1..NumTrees : trees[t] = <<LeafNode>>

\* ------------------------------------------------------------------- C5
\* C5: a score call on a built forest changes no tree (nor the caller's
\* sequence); the result it returned is what the same call returns on the
\* forest as it is afterwards, and a call repeating the arguments of the call
\* before it returns the same result.
C5_ScoreIsPure ==
    [][ForestBuilt =>
          /\ trees' = trees
          /\ input' = input
          /\ score_ret'.called =>
                score(trees', score_ret'.value, score_ret'.size)
                    = score_ret'.result
          /\ (score_ret.called /\ score_ret'.called
              /\ score_ret'.value = score_ret.value
              /\ score_ret'.size = score_ret.size) =>
                score_ret'.result = score_ret.result]_vars

C5_Witness ==
    /\ ForestBuilt
    /\ score_ret.called
    /\ score_ret.result.sum > 0

\* ------------------------------------------------------------------- C6
\* C6: while IForest::build runs on a non-empty sequence, the forest's buffer
\* is a permutation of the caller's input and so is the copy each tree's build
\* gets; every step of shuffle swaps positions i and j with 0 <= j <= i, both
\* inside the buffer; the steps of a tree's build leave the forest's buffer
\* alone; the caller's sequence never changes.
C6_BufferIsPermutation ==
    [][Len(input) >= 1 =>
          /\ input' = input
          /\ pc' \in {"shuffle", "tree"} => SameMultiset(data', input)
          /\ (pc = "shuffle" /\ pc' = "tree") =>
                tdata' = data /\ SameMultiset(tdata', input)
          /\ (pc = "shuffle" /\ pc' = "shuffle") =>
                /\ shuffle_i < Len(data)
                /\ \E j \in 0..shuffle_i : data' = IterSwap(data, shuffle_i, j)
          /\ (pc = "tree" /\ pc' = "tree") => data' = data]_vars

C6_Witness ==
    /\ pc = "tree"
    /\ tree_i = 2
    /\ Len(input) >= 2
    /\ data # input
    /\ tdata # data

\* ------------------------------------------------------------------ C10
\* C10: in a forest built from a non-empty sequence with max_depth >= 1, the
\* assertion node_index > 0 of path_length holds on every invocation score
\* makes, for every query value.
C10_AssertHolds ==
    (ForestBuilt /\ Len(input) >= 1 /\ max_depth >= 1) =>
        \A t \in 1..NumTrees, v \in QueryValues :
            path_length(trees[t], v, root_id(trees[t]), 0).assert_ok

====
